---- MODULE Spec2Model ----
(***************************************************************************)
(* Model of src/src/05-objects-tasks.js: the css selector builder          *)
(* (class Builder, the cssSelectorBuilder facade and combine).             *)
(*                                                                         *)
(* Strings are sequences of one-character strings, so that `a + b` of the  *)
(* source is \o and a prefix such as '#' is a real element of the text.    *)
(* Objects live in `heap`; a reference is an index into it.                *)
(***************************************************************************)
EXTENDS Integers, Sequences, FiniteSets, TLC

\* ---- bounds of the exploration ------------------------------------------
MaxObjects == 3   \* objects (accumulators and combinator nodes) ever created
MaxChain   == 6   \* calls that change the heap, while one accumulator is the only object
MaxCalls   == 3   \* calls that change the heap, otherwise
MaxSide    == 3   \* the largest width or height of a rectangle

Values == {<<"a">>, <<"b">>}   \* the argument of a call, one accumulator explored
Names == {<<"a">>}             \* the argument of a call, several objects explored
Tokens == {<<"+">>, <<" ">>}
Sides == (-1)..MaxSide         \* the numbers passed to Rectangle or assigned to a field

VARIABLES
  selectors,  \* cssSelectorBuilder.selectors (line 196)
  heap,       \* the objects created so far: Builder instances and combine() results
  log,        \* history: per object, the calls that returned normally, in order
  result      \* the outcome of the last call: what it returned or threw

vars == <<selectors, heap, log, result>>

Refs == 1..Len(heap)
Builders == {r \in Refs : heap[r].kind = "Builder"}
Nodes == {r \in Refs : heap[r].kind = "Combined"}

\* ---- class Builder ------------------------------------------------------

\* constructor(value = '', first), lines 125-135
NewBuilder(value, first) ==
  [kind |-> "Builder",
   elements |-> IF first = 1 THEN 1 ELSE 0,
   ids |-> IF first = 2 THEN 1 ELSE 0,
   pseudoElements |-> IF first = 6 THEN 1 ELSE 0,
   callQueue |-> first,
   values |-> value]

\* A method's outcome: the exception it threw ("none" when it returned) and
\* the fields of `this` as the method left them.
Outcome(err, this) == [error |-> err, this |-> this]

\* checkQueue rejecting the repetition of a stage as well (>= for >)
checkQueue_ge(this, callQueue) ==
  IF this.callQueue >= callQueue
    THEN Outcome("orderError", this)
    ELSE Outcome("none", [this EXCEPT !.callQueue = callQueue])

\* checkQueue that records the stage before it compares
checkQueue_early(this, callQueue) ==
  IF this.callQueue > callQueue
    THEN Outcome("orderError", [this EXCEPT !.callQueue = callQueue])
    ELSE Outcome("none", [this EXCEPT !.callQueue = callQueue])

\* checkQueue(callQueue), lines 189-192; orderError, lines 116-118
checkQueue(this, callQueue) ==
  IF this.callQueue > callQueue
    THEN Outcome("orderError", this)
    ELSE Outcome("none", [this EXCEPT !.callQueue = callQueue])

\* element without the ordering check
element_nocheck(this, value) ==
  LET t == [this EXCEPT !.elements = @ + 1, !.callQueue = 1] IN
  IF t.elements > 1 THEN Outcome("countError", t)
  ELSE Outcome("none", [t EXCEPT !.values = @ \o value])

\* element(value), lines 137-145; countError, lines 120-122
element(this, value) ==
  LET q == checkQueue(this, 1) IN
  IF q.error # "none" THEN q
  ELSE LET t == [q.this EXCEPT !.elements = @ + 1] IN
       IF t.elements > 1 THEN Outcome("countError", t)
       ELSE Outcome("none", [t EXCEPT !.values = @ \o value])

\* id without the cardinality check
id_nocount(this, value) ==
  LET q == checkQueue(this, 2) IN
  IF q.error # "none" THEN q
  ELSE Outcome("none", [q.this EXCEPT !.ids = @ + 1,
                                      !.values = @ \o <<"#">> \o value])

\* id that counts before it checks the order
id_countfirst(this, value) ==
  LET t == [this EXCEPT !.ids = @ + 1] IN
  IF t.ids > 1 THEN Outcome("countError", t)
  ELSE LET q == checkQueue(t, 2) IN
       IF q.error # "none" THEN q
       ELSE Outcome("none", [q.this EXCEPT !.values = @ \o <<"#">> \o value])

\* id(value), lines 147-155
id(this, value) ==
  LET q == checkQueue(this, 2) IN
  IF q.error # "none" THEN q
  ELSE LET t == [q.this EXCEPT !.ids = @ + 1] IN
       IF t.ids > 1 THEN Outcome("countError", t)
       ELSE Outcome("none", [t EXCEPT !.values = @ \o <<"#">> \o value])

\* class without the ordering check
class_nocheck(this, value) ==
  Outcome("none", [this EXCEPT !.callQueue = 3, !.values = @ \o <<".">> \o value])

\* class(value), lines 157-161
class(this, value) ==
  LET q == checkQueue(this, 3) IN
  IF q.error # "none" THEN q
  ELSE Outcome("none", [q.this EXCEPT !.values = @ \o <<".">> \o value])

\* attr that forgets the closing bracket
attr_open(this, value) ==
  LET q == checkQueue(this, 4) IN
  IF q.error # "none" THEN q
  ELSE Outcome("none", [q.this EXCEPT !.values = @ \o <<"[">> \o value])

\* attr(value), lines 163-167
attr(this, value) ==
  LET q == checkQueue(this, 4) IN
  IF q.error # "none" THEN q
  ELSE Outcome("none", [q.this EXCEPT !.values = @ \o <<"[">> \o value \o <<"]">>])

\* pseudoClass(value), lines 169-173
pseudoClass(this, value) ==
  LET q == checkQueue(this, 5) IN
  IF q.error # "none" THEN q
  ELSE Outcome("none", [q.this EXCEPT !.values = @ \o <<":">> \o value])

\* pseudoElement that appends its fragment before it counts
pseudoElement_appendfirst(this, value) ==
  LET q == checkQueue(this, 6) IN
  IF q.error # "none" THEN q
  ELSE LET t == [q.this EXCEPT !.pseudoElements = @ + 1,
                               !.values = @ \o <<":", ":">> \o value] IN
       IF t.pseudoElements > 1 THEN Outcome("countError", t)
       ELSE Outcome("none", t)

\* pseudoElement(value), lines 175-183
pseudoElement(this, value) ==
  LET q == checkQueue(this, 6) IN
  IF q.error # "none" THEN q
  ELSE LET t == [q.this EXCEPT !.pseudoElements = @ + 1] IN
       IF t.pseudoElements > 1 THEN Outcome("countError", t)
       ELSE Outcome("none", [t EXCEPT !.values = @ \o <<":", ":">> \o value])

\* the template without the spaces around the combinator
template_tight(s1, combinator, s2) == s1 \o combinator \o s2

\* the template with the operands exchanged
template_swapped(s1, combinator, s2) == s2 \o <<" ">> \o combinator \o <<" ">> \o s1

\* the template that does not repeat white space
template_trimmed(s1, combinator, s2) ==
  IF combinator = <<" ">> THEN s1 \o <<" ">> \o s2
  ELSE s1 \o <<" ">> \o combinator \o <<" ">> \o s2

\* the template literal of combine's stringify, line 225
template(s1, combinator, s2) == s1 \o <<" ">> \o combinator \o <<" ">> \o s2

\* stringify(): Builder.stringify, lines 185-187; the object combine returns,
\* lines 223-227, which calls stringify() of both captured operands
RECURSIVE stringify(_, _)
stringify(h, r) ==
  IF h[r].kind = "Builder"
    THEN h[r].values
    ELSE template(stringify(h, h[r].selector1), h[r].combinator,
                  stringify(h, h[r].selector2))

\* ---- history and exploration guards -------------------------------------

RECURSIVE TotalFrom(_, _)
TotalFrom(l, i) == IF i > Len(l) THEN 0 ELSE Len(l[i]) + TotalFrom(l, i + 1)
TotalCalls == TotalFrom(log, 1)

\* every cardinality error leaves one counter one higher (lines 139, 149, 177)
RECURSIVE CountErrorsFrom(_, _)
CountErrorsFrom(h, i) ==
  IF i > Len(h) THEN 0
  ELSE (IF h[i].kind = "Builder"
          THEN h[i].elements + h[i].ids + h[i].pseudoElements
               - Cardinality({s \in {1, 2, 6} : \E c \in 1..Len(log[i]) : log[i][c].stage = s})
          ELSE 0) + CountErrorsFrom(h, i + 1)

\* The exploration stops making calls that change the heap (a call that
\* returns, a call that throws the cardinality error) once the budget is
\* spent; a call that throws the ordering error is always explored.
Spent == TotalCalls + CountErrorsFrom(heap, 1)
CanCreate == Len(heap) < MaxObjects /\ Spent < MaxCalls
CanAppend == Spent < (IF Len(heap) = 1 THEN MaxChain ELSE MaxCalls)

Call(stage, value) == [stage |-> stage, value |-> value]

\* ---- calls --------------------------------------------------------------

\* A facade that keeps one accumulator and hands it out again, re-seeded
Enter_shared(op, first, value, text) ==
  /\ Spent < MaxCalls
  /\ IF heap = <<>>
       THEN /\ heap' = <<NewBuilder(text, first)>>
            /\ log' = <<(<<Call(first, value)>>)>>
       ELSE /\ heap' = [heap EXCEPT ![1] = NewBuilder(text, first)]
            /\ log' = [log EXCEPT ![1] = Append(@, Call(first, value))]
  /\ result' = [op |-> op, kind |-> "entry", this |-> 0, stage |-> first,
                error |-> "none", ret |-> 1, text |-> <<>>]
  /\ UNCHANGED selectors

\* A facade entry: `return new Builder(text, first)`, lines 197-220
Enter(op, first, value, text) ==
  /\ CanCreate
  /\ heap' = Append(heap, NewBuilder(text, first))
  /\ log' = Append(log, <<Call(first, value)>>)
  /\ result' = [op |-> op, kind |-> "entry", this |-> 0, stage |-> first,
                error |-> "none", ret |-> Len(heap) + 1, text |-> <<>>]
  /\ UNCHANGED selectors

\* A method that returns a changed copy and leaves `this` as it was
Invoke_copy(b, op, stage, value, o) ==
  /\ o.error # "orderError" => CanAppend
  /\ heap' = IF o.error = "none" THEN Append(heap, o.this) ELSE heap
  /\ log' = IF o.error = "none"
              THEN Append(log, Append(log[b], Call(stage, value)))
              ELSE log
  /\ result' = [op |-> op, kind |-> "append", this |-> b, stage |-> stage,
                error |-> o.error,
                ret |-> IF o.error = "none" THEN Len(heap) + 1 ELSE 0, text |-> <<>>]
  /\ UNCHANGED selectors

\* A method call b.op(value) whose body left outcome o; `return this`,
\* lines 144, 154, 160, 166, 172, 182
Invoke(b, op, stage, value, o) ==
  /\ o.error # "orderError" => CanAppend
  /\ heap' = [heap EXCEPT ![b] = o.this]
  /\ log' = IF o.error = "none"
              THEN [log EXCEPT ![b] = Append(@, Call(stage, value))]
              ELSE log
  /\ result' = [op |-> op, kind |-> "append", this |-> b, stage |-> stage,
                error |-> o.error,
                ret |-> IF o.error = "none" THEN b ELSE 0, text |-> <<>>]
  /\ UNCHANGED selectors

FacadeElement(v) == Enter("element", 1, v, v)
FacadeId(v) == Enter("id", 2, v, <<"#">> \o v)
FacadeClass(v) == Enter("class", 3, v, <<".">> \o v)
FacadeAttr(v) == Enter("attr", 4, v, <<"[">> \o v \o <<"]">>)
FacadePseudoClass(v) == Enter("pseudoClass", 5, v, <<":">> \o v)
FacadePseudoElement(v) == Enter("pseudoElement", 6, v, <<":", ":">> \o v)

BuilderElement(b, v) ==
  Invoke(b, "element", 1, v, element(heap[b], v))
BuilderId(b, v) ==
  Invoke(b, "id", 2, v, id(heap[b], v))
BuilderClass(b, v) == Invoke(b, "class", 3, v, class(heap[b], v))
BuilderAttr(b, v) == Invoke(b, "attr", 4, v, attr(heap[b], v))
BuilderPseudoClass(b, v) == Invoke(b, "pseudoClass", 5, v, pseudoClass(heap[b], v))
BuilderPseudoElement(b, v) ==
  Invoke(b, "pseudoElement", 6, v, pseudoElement(heap[b], v))

\* combine that appends the combinator and the second operand to the first
Combine_merging(s1, c, s2) ==
  /\ CanCreate
  /\ heap' = Append(
       [heap EXCEPT ![s1] =
          IF @.kind = "Builder"
            THEN [@ EXCEPT !.values = template(@, c, stringify(heap, s2))]
            ELSE @],
       [kind |-> "Combined", selector1 |-> s1, combinator |-> c, selector2 |-> s2])
  /\ log' = Append(log, <<Call(0, c)>>)
  /\ result' = [op |-> "combine", kind |-> "combine", this |-> 0, stage |-> 0,
                error |-> "none", ret |-> Len(heap) + 1, text |-> <<>>]
  /\ UNCHANGED selectors

\* combine that renders its operands at once and keeps the snapshots
Combine_eager(s1, c, s2) ==
  /\ CanCreate
  /\ heap' = heap \o <<heap[s1], heap[s2],
                       [kind |-> "Combined", selector1 |-> Len(heap) + 1,
                        combinator |-> c, selector2 |-> Len(heap) + 2]>>
  /\ log' = log \o <<log[s1], log[s2], <<Call(0, c)>> >>
  /\ result' = [op |-> "combine", kind |-> "combine", this |-> 0, stage |-> 0,
                error |-> "none", ret |-> Len(heap) + 3, text |-> <<>>]
  /\ UNCHANGED selectors

\* combine(selector1, combinator, selector2), lines 222-228: the returned
\* object captures the three arguments; nothing is evaluated yet
Combine(s1, c, s2) ==
  /\ CanCreate
  /\ heap' = Append(heap, [kind |-> "Combined", selector1 |-> s1,
                           combinator |-> c, selector2 |-> s2])
  /\ log' = Append(log, <<Call(0, c)>>)
  /\ result' = [op |-> "combine", kind |-> "combine", this |-> 0, stage |-> 0,
                error |-> "none", ret |-> Len(heap) + 1, text |-> <<>>]
  /\ UNCHANGED selectors

\* r.stringify() on an accumulator or on a combinator node
Stringify(r) ==
  /\ result' = [op |-> "stringify", kind |-> "stringify", this |-> r, stage |-> 0,
                error |-> "none", ret |-> 0,
                text |-> stringify(heap, r)]
  /\ UNCHANGED <<selectors, heap, log>>

Init ==
  /\ selectors = <<>>
  /\ heap = <<>>
  /\ log = <<>>
  /\ result = [op |-> "load", kind |-> "load", this |-> 0, stage |-> 0,
               error |-> "none", ret |-> 0, text |-> <<>>]

\* Several objects: accumulators, combinator nodes, calls on any of them.
Next ==
  \/ \E v \in Names : FacadeElement(v)
  \/ \E v \in Names : FacadeId(v)
  \/ \E v \in Names : FacadeClass(v)
  \/ \E v \in Names : FacadeAttr(v)
  \/ \E v \in Names : FacadePseudoClass(v)
  \/ \E v \in Names : FacadePseudoElement(v)
  \/ \E b \in Builders, v \in Names : BuilderElement(b, v)
  \/ \E b \in Builders, v \in Names : BuilderId(b, v)
  \/ \E b \in Builders, v \in Names : BuilderClass(b, v)
  \/ \E b \in Builders, v \in Names : BuilderAttr(b, v)
  \/ \E b \in Builders, v \in Names : BuilderPseudoClass(b, v)
  \/ \E b \in Builders, v \in Names : BuilderPseudoElement(b, v)
  \/ \E s1 \in Refs, s2 \in Refs, c \in Tokens : Combine(s1, c, s2)
  \/ \E r \in Refs : Stringify(r)

Spec == Init /\ [][Next]_vars

\* One accumulator and the chain of calls made on it.
NextChain ==
  \/ \E v \in Values : heap = <<>> /\ FacadeElement(v)
  \/ \E v \in Values : heap = <<>> /\ FacadeId(v)
  \/ \E v \in Values : heap = <<>> /\ FacadeClass(v)
  \/ \E v \in Values : heap = <<>> /\ FacadeAttr(v)
  \/ \E v \in Values : heap = <<>> /\ FacadePseudoClass(v)
  \/ \E v \in Values : heap = <<>> /\ FacadePseudoElement(v)
  \/ \E b \in Builders, v \in Values : BuilderElement(b, v)
  \/ \E b \in Builders, v \in Values : BuilderId(b, v)
  \/ \E b \in Builders, v \in Values : BuilderClass(b, v)
  \/ \E b \in Builders, v \in Values : BuilderAttr(b, v)
  \/ \E b \in Builders, v \in Values : BuilderPseudoClass(b, v)
  \/ \E b \in Builders, v \in Values : BuilderPseudoElement(b, v)
  \/ \E r \in Refs : Stringify(r)

SpecChain == Init /\ [][NextChain]_vars

TypeOK ==
  /\ selectors = <<>>
  /\ Len(log) = Len(heap)
  /\ \A r \in Nodes : heap[r].selector1 < r /\ heap[r].selector2 < r

\* ---- Rectangle -----------------------------------------------------------

\* Rectangle whose width and height fields are exchanged
Rectangle_swapped(width, height) ==
  [kind |-> "Rectangle", width |-> height, height |-> width,
   scope |-> [width |-> width, height |-> height]]

\* Rectangle(width, height), lines 23-29: the object literal with the fields
\* width and height, and the parameters that the arrow function of getArea
\* closes over
Rectangle(width, height) ==
  [kind |-> "Rectangle", width |-> width, height |-> height,
   scope |-> [width |-> width, height |-> height]]

\* getArea computed from the fields of the object
getArea_fields(r) == r.height * r.width

\* getArea: () => height * width, line 27
getArea(r) == r.scope.height * r.scope.width

Rectangles == {r \in Refs : heap[r].kind = "Rectangle"}

\* new Rectangle(w, h)
RectangleNew(w, h) ==
  /\ heap' = Append(heap, Rectangle(w, h))
  /\ log' = Append(log, <<Call("Rectangle", <<w, h>>)>>)
  /\ result' = [op |-> "Rectangle", kind |-> "new", this |-> 0, stage |-> 0,
                error |-> "none", ret |-> Len(heap) + 1, text |-> <<>>]
  /\ UNCHANGED selectors

\* r.width
RectangleWidth(r) ==
  /\ result' = [op |-> "width", kind |-> "read", this |-> r, stage |-> 0,
                error |-> "none", ret |-> heap[r].width, text |-> <<>>]
  /\ UNCHANGED <<selectors, heap, log>>

\* r.height
RectangleHeight(r) ==
  /\ result' = [op |-> "height", kind |-> "read", this |-> r, stage |-> 0,
                error |-> "none", ret |-> heap[r].height, text |-> <<>>]
  /\ UNCHANGED <<selectors, heap, log>>

\* r.getArea()
RectangleGetArea(r) ==
  /\ result' = [op |-> "getArea", kind |-> "read", this |-> r, stage |-> 0,
                error |-> "none", ret |-> getArea(heap[r]), text |-> <<>>]
  /\ UNCHANGED <<selectors, heap, log>>

\* r.width = x: the object literal of line 24 is an ordinary, writable object
RectangleSetWidth(r, x) ==
  /\ Spent < MaxCalls
  /\ heap' = [heap EXCEPT ![r].width = x]
  /\ log' = [log EXCEPT ![r] = Append(@, Call("width", x))]
  /\ result' = [op |-> "width", kind |-> "assign", this |-> r, stage |-> 0,
                error |-> "none", ret |-> x, text |-> <<>>]
  /\ UNCHANGED selectors

\* r.height = x
RectangleSetHeight(r, x) ==
  /\ Spent < MaxCalls
  /\ heap' = [heap EXCEPT ![r].height = x]
  /\ log' = [log EXCEPT ![r] = Append(@, Call("height", x))]
  /\ result' = [op |-> "height", kind |-> "assign", this |-> r, stage |-> 0,
                error |-> "none", ret |-> x, text |-> <<>>]
  /\ UNCHANGED selectors

\* One rectangle, its reads and the assignments to its fields.
NextRect ==
  \/ \E w \in Sides, h \in Sides : heap = <<>> /\ RectangleNew(w, h)
  \/ \E r \in Rectangles : RectangleWidth(r)
  \/ \E r \in Rectangles : RectangleHeight(r)
  \/ \E r \in Rectangles : RectangleGetArea(r)
  \/ \E r \in Rectangles, x \in Sides : RectangleSetWidth(r, x)
  \/ \E r \in Rectangles, x \in Sides : RectangleSetHeight(r, x)

SpecRect == Init /\ [][NextRect]_vars

\* ---- vocabulary of the properties ---------------------------------------

Element == 1
Id == 2
Class == 3
Attr == 4
PseudoClass == 5
PseudoElement == 6
Singletons == {Element, Id, PseudoElement}

\* the stage of the entry operation or of the most recent call that returned
LastStage(l) == l[Len(l)].stage
\* the stages of the calls that returned
Applied(l) == {l[i].stage : i \in 1..Len(l)}

\* the value of a call with the prefix of its stage
Decorated(c) ==
  CASE c.stage = Element -> c.value
    [] c.stage = Id -> <<"#">> \o c.value
    [] c.stage = Class -> <<".">> \o c.value
    [] c.stage = Attr -> <<"[">> \o c.value \o <<"]">>
    [] c.stage = PseudoClass -> <<":">> \o c.value
    [] c.stage = PseudoElement -> <<":", ":">> \o c.value

RECURSIVE Joined(_)
Joined(l) == IF l = <<>> THEN <<>> ELSE Decorated(Head(l)) \o Joined(Tail(l))

\* In a step, result' describes the call the step made and the unprimed
\* variables the state it was made in.
Appending == result'.kind = "append"
Target == result'.this
Raised == result'.error

\* ---- C1 -----------------------------------------------------------------

\* the call continues a valid chain: its stage is not below the last one and
\* a singleton stage has not been used yet
C1_Valid ==
  /\ Appending
  /\ result'.stage >= LastStage(log[Target])
  /\ result'.stage \in Singletons => result'.stage \notin Applied(log[Target])

C1_Step ==
  /\ result'.kind = "entry" => Raised = "none"
  /\ C1_Valid => Raised = "none"
  /\ (result'.kind = "stringify" /\ Target \in Builders)
       => result'.text = Joined(log'[Target])

\* C1: a chain that starts with a facade entry and continues with appends of
\* non-decreasing stage, element, id and pseudoElement used at most once, never
\* raises, and stringify() returns the decorated values of its calls,
\* concatenated in call order.
C1_ValidChainRendersInCallOrder == [][C1_Step]_vars

\* element('a').id('b').class('a').attr('b').pseudoClass('a')
\*   .pseudoElement('b').stringify() has returned 'a#b.a[b]:a::b'
C1_Witness ==
  /\ result.kind = "stringify"
  /\ result.this \in Builders
  /\ Len(log[result.this]) = 6
  /\ Applied(log[result.this]) = {Element, Id, Class, Attr, PseudoClass, PseudoElement}
  /\ result.text = <<"a", "#", "b", ".", "a", "[", "b", "]", ":", "a", ":", ":", "b">>

\* ---- C2 -----------------------------------------------------------------

C2_Step ==
  Appending => (Raised = "orderError" <=> result'.stage < LastStage(log[Target]))

\* C2: an append raises the ordering error if and only if its stage is
\* strictly below lastStage, the stage of the entry operation or of the most
\* recent append that returned.
C2_OrderErrorIffBelowLastStage == [][C2_Step]_vars

\* attr('x').element('y') has raised the ordering error
C2_Witness ==
  /\ result.kind = "append"
  /\ result.error = "orderError"
  /\ result.stage = Element
  /\ Len(log[result.this]) = 1
  /\ LastStage(log[result.this]) = Attr

\* ---- C3 -----------------------------------------------------------------

C3_SecondId == Appending /\ result'.stage = Id /\ Id \in Applied(log[Target])

\* C3 as stated: the second id on an accumulator raises the cardinality
\* error, whatever was applied in between.
C3_SecondIdRaisesCardinality == [][C3_SecondId => Raised = "countError"]_vars

\* C3 amended: the second id on an accumulator always raises: the cardinality
\* error when lastStage is still id, the ordering error when a later stage
\* has been applied in between.
C3_SecondIdRaises ==
  [][C3_SecondId =>
       /\ Raised # "none"
       /\ Raised = "countError" <=> LastStage(log[Target]) = Id
       /\ Raised = "orderError" <=> LastStage(log[Target]) > Id]_vars

\* id('a').class('b').id('a') has raised the ordering error
C3_Witness ==
  /\ result.kind = "append"
  /\ result.stage = Id
  /\ result.error = "orderError"
  /\ Id \in Applied(log[result.this])
  /\ LastStage(log[result.this]) = Class

\* ---- C4 -----------------------------------------------------------------

C4_SecondElement ==
  Appending /\ result'.stage = Element /\ Element \in Applied(log[Target])

\* C4 as stated: element on an accumulator that already holds an element
\* raises the cardinality error, also when an id was appended in between.
C4_SecondElementRaisesCardinality ==
  [][C4_SecondElement => Raised = "countError"]_vars

\* C4 amended: element on an accumulator that already holds an element always
\* raises: the ordering error when an id (or any later stage) was appended in
\* between, the cardinality error when lastStage is still element.
C4_SecondElementRaises ==
  [][C4_SecondElement =>
       /\ Raised # "none"
       /\ Raised = "orderError" <=> LastStage(log[Target]) > Element
       /\ Raised = "countError" <=> LastStage(log[Target]) = Element]_vars

\* element('a').id('b') then element('a') on it has raised the ordering error
C4_Witness ==
  /\ result.kind = "append"
  /\ result.stage = Element
  /\ result.error = "orderError"
  /\ Len(log[result.this]) = 2
  /\ log[result.this][1].stage = Element
  /\ log[result.this][2].stage = Id

\* ---- C5 -----------------------------------------------------------------

\* C5: in every state of every accumulator, also after a caught error,
\* elementCount <= 1, idCount <= 1 and pseudoElementCount <= 1.
C5_CountersAtMostOne ==
  \A b \in Builders :
    heap[b].elements <= 1 /\ heap[b].ids <= 1 /\ heap[b].pseudoElements <= 1

\* ---- C6 -----------------------------------------------------------------

C6_Step ==
  Appending =>
    /\ (result'.stage = Class /\ Attr \in Applied(log[Target]))
         => Raised = "orderError"
    /\ (result'.stage = Class /\ LastStage(log[Target]) = Class)
         => Raised = "none"
    /\ (result'.stage \in {Class, Attr, PseudoClass}
          /\ LastStage(log[Target]) = result'.stage)
         => Raised = "none"

\* C6: once attr has been applied, every later class call raises the ordering
\* error; class on an accumulator whose lastStage is class never raises; class,
\* attr and pseudoClass can be repeated consecutively without raising.
C6_ClassAfterAttrRaises == [][C6_Step]_vars

\* attr, then pseudoClass, then class: the class call has raised
C6_Witness ==
  /\ result.kind = "append"
  /\ result.stage = Class
  /\ result.error = "orderError"
  /\ Attr \in Applied(log[result.this])
  /\ LastStage(log[result.this]) = PseudoClass

\* ---- C7 -----------------------------------------------------------------

\* C7: combine(a, t, b) never raises, whatever a, b and t, and stringify() of
\* the node it returns is a.stringify() + ' ' + t + ' ' + b.stringify().
C7_CombineJoinsWithSpaces ==
  /\ result.kind = "combine" =>
       /\ result.error = "none"
       /\ result.ret \in Nodes
  /\ (result.kind = "stringify" /\ result.this \in Nodes) =>
       LET n == heap[result.this] IN
       /\ result.error = "none"
       /\ result.text = stringify(heap, n.selector1) \o <<" ">> \o n.combinator
                          \o <<" ">> \o stringify(heap, n.selector2)

\* combine(element('a'), '+', id('a')).stringify() has returned 'a + #a'
C7_Witness ==
  /\ result.kind = "stringify"
  /\ result.this \in Nodes
  /\ heap[result.this].selector1 \in Builders
  /\ heap[result.this].selector2 \in Builders
  /\ heap[result.this].selector1 # heap[result.this].selector2
  /\ result.text = <<"a", " ", "+", " ", "#", "a">>

\* ---- C8 -----------------------------------------------------------------

\* the accumulators and tokens of a tree of nodes, from left to right
RECURSIVE Leaves(_, _)
Leaves(h, r) ==
  IF h[r].kind = "Builder"
    THEN <<h[r].values>>
    ELSE Leaves(h, h[r].selector1) \o <<h[r].combinator>> \o Leaves(h, h[r].selector2)

\* the items with one space between neighbours
RECURSIVE Spaced(_)
Spaced(items) ==
  IF Len(items) = 1 THEN items[1]
  ELSE items[1] \o <<" ">> \o Spaced(Tail(items))

\* C8: nodes nest on either side and render as the flat in-order join of
\* their leaves and tokens, so the left-nested and the right-nested form of
\* the same leaves and tokens render the same string.
C8_NestedRendersFlat ==
  (result.kind = "stringify" /\ result.this \in Nodes) =>
    result.text = Spaced(Leaves(heap, result.this))

\* combine(combine(a, '+', a), ' ', a).stringify() for a = element('a')
C8_Witness ==
  /\ result.kind = "stringify"
  /\ result.this \in Nodes
  /\ heap[result.this].selector1 \in Nodes
  /\ heap[result.this].combinator # heap[heap[result.this].selector1].combinator
  /\ result.text = <<"a", " ", "+", " ", "a", " ", " ", " ", "a">>

\* ---- C9 -----------------------------------------------------------------

C9_Step ==
  /\ selectors' = selectors
  /\ result'.kind = "entry" =>
       /\ result'.ret \notin Refs
       /\ \A r \in Refs : heap'[r] = heap[r] /\ log'[r] = log[r]
  /\ Appending =>
       \A r \in Refs \ {Target} : heap'[r] = heap[r] /\ log'[r] = log[r]

\* C9: every facade entry returns a new accumulator that shares no state
\* with the facade or with another accumulator: a call on one accumulator,
\* returning or raising, leaves the text, counters and lastStage of every
\* other one unchanged, and so does every entry.
C9_AccumulatorsIndependent == [][C9_Step]_vars

\* two accumulators: one has been appended to, then a call on the other raised
C9_Witness ==
  /\ result.kind = "append"
  /\ result.error # "none"
  /\ \E b \in Builders \ {result.this} : Len(log[b]) = 2

\* ---- C10 ----------------------------------------------------------------

C10_Step ==
  (Appending /\ Raised = "none") =>
    /\ result'.ret = Target
    /\ Len(heap') = Len(heap)
    /\ stringify(heap', Target)
         = stringify(heap, Target) \o Decorated(log'[Target][Len(log'[Target])])
    /\ stringify(heap', Target) # stringify(heap, Target)

\* C10: an append that returns has changed the accumulator it was called on
\* and returns that accumulator, not a copy: its stringify() now ends with the
\* appended fragment.
C10_AppendReturnsThis == [][C10_Step]_vars

\* s.class('a') has returned s
C10_Witness ==
  /\ result.kind = "append"
  /\ result.error = "none"
  /\ result.stage = Class
  /\ result.ret = result.this
  /\ Len(heap) >= 2
  /\ SubSeq(heap[result.this].values, Len(heap[result.this].values) - 1,
            Len(heap[result.this].values)) = <<".", "a">>

\* ---- C11 ----------------------------------------------------------------

\* the width and height a rectangle was built from
BuiltWidth(r) == log[r][1].value[1]
BuiltHeight(r) == log[r][1].value[2]

\* C11: for a rectangle built from w and h, the fields width and height read
\* w and h and getArea() returns w * h.
C11_RectangleFieldsAndArea ==
  (result.kind = "read" /\ Len(log[result.this]) = 1) =>
    /\ result.op = "width" => result.ret = BuiltWidth(result.this)
    /\ result.op = "height" => result.ret = BuiltHeight(result.this)
    /\ result.op = "getArea"
         => result.ret = BuiltWidth(result.this) * BuiltHeight(result.this)

\* new Rectangle(2, 3): width has been read as 2
C11_Witness ==
  /\ result.kind = "read"
  /\ result.op = "width"
  /\ Len(log[result.this]) = 1
  /\ BuiltWidth(result.this) = 2
  /\ BuiltHeight(result.this) = 3
  /\ result.ret = 2
  /\ getArea(heap[result.this]) = 6

\* ---- C12 ----------------------------------------------------------------

C12_Step ==
  /\ result'.kind = "stringify" => Raised = "none"
  /\ (Appending /\ Raised # "none") =>
       /\ stringify(heap', Target) = stringify(heap, Target)
       /\ result'.ret = 0
  /\ (Appending /\ Raised = "none") =>
       stringify(heap', Target) # stringify(heap, Target)

\* C12: a violation is raised by the offending append itself: stringify()
\* never raises, and after a failed append stringify() returns the text it
\* returned before the call, without a partial fragment.
C12_FailedAppendKeepsText == [][C12_Step]_vars

\* pseudoElement twice: the second call has raised and the text is unchanged
C12_Witness ==
  /\ result.kind = "append"
  /\ result.error = "countError"
  /\ result.stage = PseudoElement
  /\ heap[result.this].pseudoElements = 2
  /\ heap[result.this].values = Joined(log[result.this])

\* ---- C13 ----------------------------------------------------------------

C13_Descendant ==
  /\ result.kind = "stringify"
  /\ result.this \in Nodes
  /\ heap[result.this].combinator = <<" ">>

\* C13 as stated: with the descendant token ' ' exactly two spaces stand
\* between the text of the left operand and the text of the right operand.
C13_DescendantTwoSpaces ==
  C13_Descendant =>
    result.text = stringify(heap, heap[result.this].selector1) \o <<" ", " ">>
                    \o stringify(heap, heap[result.this].selector2)

\* C13 amended: with the descendant token ' ' exactly three spaces stand
\* between the text of the left operand and the text of the right operand
\* (the token and the two spaces of the template).
C13_DescendantThreeSpaces ==
  C13_Descendant =>
    result.text = stringify(heap, heap[result.this].selector1) \o <<" ", " ", " ">>
                    \o stringify(heap, heap[result.this].selector2)

\* combine(element('a'), ' ', class('a')).stringify() has returned 'a   .a'
C13_Witness ==
  /\ C13_Descendant
  /\ result.text = <<"a", " ", " ", " ", ".", "a">>

\* ---- C14 ----------------------------------------------------------------

C14_Step ==
  /\ result'.kind \in {"combine", "stringify"} =>
       \A r \in Refs : heap'[r] = heap[r]
  /\ \A n \in Nodes : heap'[n] = heap[n]

\* C14: combine and stringify() change no operand, at any depth, and a node
\* never changes after its construction.
C14_CombineHasNoSideEffect == [][C14_Step]_vars

\* a node over a node over an accumulator has been built by combine
C14_Witness ==
  /\ result.kind = "combine"
  /\ heap[result.ret].selector2 \in Nodes
  /\ heap[heap[result.ret].selector2].selector1 \in Builders
  /\ Len(log[heap[heap[result.ret].selector2].selector1]) = 1

\* ---- C15 ----------------------------------------------------------------

\* n renders b, directly or through nested nodes
RECURSIVE Reaches(_, _, _)
Reaches(h, n, b) ==
  \/ n = b
  \/ /\ h[n].kind = "Combined"
     /\ Reaches(h, h[n].selector1, b) \/ Reaches(h, h[n].selector2, b)

C15_Step ==
  /\ result'.kind = "combine" =>
       /\ Len(heap') = Len(heap) + 1
       /\ heap'[result'.ret].selector1 \in Refs
       /\ heap'[result'.ret].selector2 \in Refs
       /\ result'.text = <<>>
  /\ \A n \in Nodes :
       /\ stringify(heap', n)
            = stringify(heap', heap[n].selector1) \o <<" ">> \o heap[n].combinator
                \o <<" ">> \o stringify(heap', heap[n].selector2)
       /\ (Appending /\ Raised = "none" /\ Reaches(heap, n, Target))
            => stringify(heap', n) # stringify(heap, n)

\* C15: combine keeps its operands and renders nothing; every rendering of a
\* node joins what its operands render at that moment, so an append made to an
\* operand after combine shows in the node's later renderings.
C15_NodeRendersLazily == [][C15_Step]_vars

\* a = element('a'); n = combine(a, '+', a); a.class('a'): n renders 'a.a + a.a'
C15_Witness ==
  /\ result.kind = "append"
  /\ result.error = "none"
  /\ \E n \in Nodes :
       /\ heap[n].selector1 = result.this
       /\ stringify(heap, n) = <<"a", ".", "a", " ", "+", " ", "a", ".", "a">>

\* ---- C16 ----------------------------------------------------------------

C16_Step ==
  /\ \A b \in Builders :
       /\ heap'[b].callQueue >= heap[b].callQueue
       /\ heap'[b].callQueue \in Element..PseudoElement
  /\ result'.kind = "entry" => heap'[result'.ret].callQueue = result'.stage
  /\ (Appending /\ Raised = "none") => heap'[Target].callQueue = result'.stage
  /\ (Appending /\ Raised = "orderError")
       => heap'[Target].callQueue = heap[Target].callQueue

\* C16: lastStage of an accumulator never decreases, is always one of the six
\* stages, equals the stage of an append that returned, and is left unchanged
\* by a call that raises the ordering error.
C16_LastStageMonotone == [][C16_Step]_vars

\* class, attr, pseudoElement, then id: the ordering error, lastStage still 6
C16_Witness ==
  /\ result.kind = "append"
  /\ result.error = "orderError"
  /\ result.stage = Id
  /\ heap[result.this].callQueue = PseudoElement
  /\ Len(log[result.this]) = 3

\* ---- C17 ----------------------------------------------------------------

\* the call of stage s on accumulator state `this`
Method(s, this, v) ==
  CASE s = Element -> element(this, v)
    [] s = Id -> id(this, v)
    [] s = Class -> class(this, v)
    [] s = Attr -> attr(this, v)
    [] s = PseudoClass -> pseudoClass(this, v)
    [] s = PseudoElement -> pseudoElement(this, v)

\* the stages whose call would return
Accepted(this) ==
  {s \in Element..PseudoElement : Method(s, this, <<"a">>).error = "none"}

C17_Step ==
  Appending =>
    /\ Raised = "countError"
         <=> (result'.stage \in Singletons /\ heap[Target].callQueue = result'.stage)
    /\ (result'.stage \in Singletons /\ result'.stage \in Applied(log[Target])
          /\ result'.stage < LastStage(log[Target]))
         => Raised = "orderError"
    /\ Raised = "countError" => heap'[Target].callQueue = heap[Target].callQueue
    /\ Raised # "none" => Accepted(heap'[Target]) = Accepted(heap[Target])

\* C17: element, id or pseudoElement raises the cardinality error exactly when
\* lastStage equals the call's stage; a call that breaks both rules raises the
\* ordering error; a cardinality error leaves lastStage unchanged, and the
\* calls accepted after a failed call are those accepted before it.
C17_CardinalityIffSameStage == [][C17_Step]_vars

\* element('a').id('b').id('a'): the cardinality error, lastStage still id
C17_Witness ==
  /\ result.kind = "append"
  /\ result.error = "countError"
  /\ result.stage = Id
  /\ heap[result.this].callQueue = Id
  /\ heap[result.this].ids = 2
  /\ Len(log[result.this]) = 2
  /\ Accepted(heap[result.this]) = {Class, Attr, PseudoClass, PseudoElement}

\* ---- C18 ----------------------------------------------------------------

\* C18: getArea() always returns the product of the width and height passed
\* to Rectangle, also after the width or height field has been assigned.
C18_AreaFixedAtConstruction ==
  (result.kind = "read" /\ result.op = "getArea") =>
    result.ret = BuiltWidth(result.this) * BuiltHeight(result.this)

\* new Rectangle(2, 3), then width = 1 and height = 1: getArea() returns 6
C18_Witness ==
  /\ result.kind = "read"
  /\ result.op = "getArea"
  /\ Len(log[result.this]) = 3
  /\ heap[result.this].width = 1
  /\ heap[result.this].height = 1
  /\ result.ret = 6
====
